---- MODULE Spec2Model ----
(***************************************************************************)
(* linecarbot, views.py: a webhook endpoint that relays Line message       *)
(* events to Discord webhooks.                                             *)
(*                                                                         *)
(* One request is one pass through `endpoint`: the method check, the       *)
(* signature check made by WebhookHandler.handle, then one handler per     *)
(* event of the body, in order, then the response.  The calls a handler    *)
(* makes to the Line API and to Discord are recorded, in the order the     *)
(* code makes them, in `trace`.  What Line and Discord answer is the       *)
(* environment's choice.                                                   *)
(***************************************************************************)
EXTENDS Integers, Sequences, FiniteSets, TLC

VARIABLES
    listening_groups,   \* LineCarbot.listening_groups (class attribute)
    pc,                 \* position of the request in endpoint
    request,            \* the request endpoint was called with
    idx,                \* index of the event WebhookHandler.handle is at
    event,              \* the event the current handler was called with
    trace,              \* the calls made for that event, in order
    raised,             \* the exception that left handler.handle, or "none"
    response,           \* what endpoint returned
    arg,                \* argument of a function applied on its own
    ret                 \* its result

vars == <<listening_groups, pc, request, idx, event, trace, raised, response, arg, ret>>

-----------------------------------------------------------------------------
(* Bounds *)

MaxEvents == 2      \* events in one webhook body
MaxNameLen == 2     \* characters of a display name
MaxTokens == 2      \* tokens of a content-type
MaxGroups == 2      \* listening groups, when user_in_listening_group is applied on its own

-----------------------------------------------------------------------------
(* Values *)

None == "None"

capture_group_id == "G1"
\* the groups events come from
Groups == {"G1", "G2"}
Users == {"U1"}

repeat_hook_url == "webhooks/repeat"
broadcast_hook_url == "webhooks/broadcast"

Notice == "Unable to forward a message from Line."

\* U+E0000, the fill character of the username format
Filler == "U+E0000"
Chars == {"a", Filler}

FileKinds == {"Image", "Video", "Audio", "File"}
MessageKinds == {"Text", "Sticker"} \cup FileKinds
\* "Other": an event no handler is registered for
Kinds == MessageKinds \cup {"Other"}

\* event.source: a SourceGroup has group_id and a user_id that is None when
\* Line does not disclose the sender; a SourceUser has user_id alone.
Events ==
    {e \in [kind : Kinds, group : Groups \cup {None}, user : Users \cup {None},
            text : {"hi"}, sticker_id : {"52002734"}, id : {"m1"}] :
        e.group = None => e.user # None}

NoEvent ==
    [kind |-> "none", group |-> None, user |-> None,
     text |-> None, sticker_id |-> None, id |-> None]

SeqsUpTo(S, n) == UNION {[1..k -> S] : k \in 0..n}

Names == SeqsUpTo(Chars, MaxNameLen)

Range(s) == {s[i] : i \in 1..Len(s)}

-----------------------------------------------------------------------------
(* What the Line API answers.  A call returns, raises LineBotApiError (an  *)
(* error response), or raises something else (the transport failed).       *)

Failures == {"LineBotApiError", "Other"}

Profiles == [display_name : Names, picture_url : {"https://pic/U1"}]

ProfileResponses ==
    {[status |-> f] : f \in Failures}
        \cup {[status |-> "ok", profile |-> p] : p \in Profiles}

\* A content-type is a sequence of tokens; the string is their concatenation
\* (<<"x-audio/", "mpeg">> is 'x-audio/mpeg').  "audio/" occurs in the first
\* two tokens and in no other, and no two tokens put side by side spell it
\* across their boundary.
Tokens == {"audio/", "x-audio/", "image/", "jpeg", "mpeg"}

\* 'audio/' in token
token_has_audio(token) == token \in {"audio/", "x-audio/"}

ContentTypes == SeqsUpTo(Tokens, MaxTokens) \ {<<>>}

\* mimetypes.guess_extension: the first extension the table of the running
\* Python lists for the type (which one is first depends on the Python),
\* None for a type the table does not list.
guess_extension(mimetype) ==
    CASE mimetype = <<"image/", "jpeg">> -> {".jpg", ".jpe", ".jpeg"}
      [] mimetype = <<"audio/", "mpeg">> -> {".mp3", ".mp2"}
      [] OTHER -> {None}

\* status "Other" also stands for an exception raised after the fetch
\* returned (functools.reduce over a content of no chunk raises TypeError)
ContentResponses ==
    {[status |-> f] : f \in Failures}
        \cup UNION {{[status |-> "ok", content_type |-> t, guessed |-> g] :
                        g \in guess_extension(t)} : t \in ContentTypes}

\* What Discord answers to the requests.post calls of one send_message, in
\* order: "2xx", a response raise_for_status accepts; "non2xx", a response
\* it raises HTTPError for (4xx, 5xx); "transport", no response
\* (requests.post raises).  A second answer is there when a second post can
\* be made.
DiscordAnswers ==
    {<<"2xx">>, <<"transport">>,
     <<"non2xx", "2xx">>, <<"non2xx", "non2xx">>, <<"non2xx", "transport">>}

-----------------------------------------------------------------------------
(* The calls recorded in trace *)

ProfileCall(why, group_id, user_id, resp) ==
    [op |-> "get_group_member_profile", why |-> why,
     group |-> group_id, user |-> user_id, resp |-> resp]

ContentCall(message_id, resp) ==
    [op |-> "get_message_content", id |-> message_id, resp |-> resp]

PostCall(role, hook_url, payload, outcome) ==
    [op |-> "post", role |-> role, url |-> hook_url,
     payload |-> payload, outcome |-> outcome]

\* The keyword arguments of send_message that the handlers use
Payload(content, file, embeds, overrides) ==
    [content |-> content, file |-> file, embeds |-> embeds,
     username |-> overrides.username, avatar_url |-> overrides.avatar_url]

NoOverrides == [username |-> None, avatar_url |-> None]

Returned(calls, value) == [calls |-> calls, exc |-> "none", value |-> value]
Raised(calls, exc) == [calls |-> calls, exc |-> exc, value |-> None]

Then(calls, r) == [r EXCEPT !.calls = calls \o r.calls]

-----------------------------------------------------------------------------
(* DiscordCarbot *)

\* send_message with the notice posted to a fixed webhook instead of hook_url
send_message_notice_to_broadcast(hook_url, payload, answers) ==
    LET primary == PostCall("primary", hook_url, payload, answers[1])
        fallback(o) ==
            PostCall("fallback", broadcast_hook_url,
                     Payload(Notice, None, None, NoOverrides), o)
    IN  CASE answers[1] = "transport" -> Raised(<<primary>>, "Other")
          [] answers[1] = "2xx" -> Returned(<<primary>>, None)
          [] OTHER ->
                IF answers[2] = "transport"
                THEN Raised(<<primary, fallback(answers[2])>>, "Other")
                ELSE Returned(<<primary, fallback(answers[2])>>, None)

\* requests.post(hook_url, ...) of line 40 is made before the try block; the
\* except clause of line 48 covers response.raise_for_status() alone, and
\* the post it makes (line 49) is not itself guarded.
send_message(hook_url, payload, answers) ==
    LET primary == PostCall("primary", hook_url, payload, answers[1])
        fallback(o) ==
            PostCall("fallback", hook_url,
                     Payload(Notice, None, None, NoOverrides), o)
    IN  CASE answers[1] = "transport" -> Raised(<<primary>>, "Other")
          [] answers[1] = "2xx" -> Returned(<<primary>>, None)
          [] OTHER ->
                IF answers[2] = "transport"
                THEN Raised(<<primary, fallback(answers[2])>>, "Other")
                ELSE Returned(<<primary, fallback(answers[2])>>, None)

-----------------------------------------------------------------------------
(* LineCarbot: the helpers *)

RECURSIVE member_loop(_, _, _)
\* the for loop of user_in_listening_group, from the i-th group on
member_loop(user_id, answers, i) ==
    IF i > Len(listening_groups)
    THEN Returned(<<>>, FALSE)
    ELSE LET call == ProfileCall("member", listening_groups[i], user_id, answers[i])
         IN  CASE answers[i].status = "ok" -> Returned(<<call>>, TRUE)
               [] answers[i].status = "LineBotApiError" ->
                     Then(<<call>>, member_loop(user_id, answers, i + 1))
               [] OTHER -> Raised(<<call>>, answers[i].status)

RECURSIVE member_loop_default_true(_, _, _)
\* the loop with `return True` after it
member_loop_default_true(user_id, answers, i) ==
    IF i > Len(listening_groups)
    THEN Returned(<<>>, TRUE)
    ELSE LET call == ProfileCall("member", listening_groups[i], user_id, answers[i])
         IN  CASE answers[i].status = "ok" -> Returned(<<call>>, TRUE)
               [] answers[i].status = "LineBotApiError" ->
                     Then(<<call>>, member_loop_default_true(user_id, answers, i + 1))
               [] OTHER -> Raised(<<call>>, answers[i].status)

user_in_listening_group_default_true(user_id, answers) ==
    member_loop_default_true(user_id, answers, 1)

RECURSIVE member_loop_no_return(_, _, _, _)
\* the loop setting a flag on success instead of returning
member_loop_no_return(user_id, answers, i, found) ==
    IF i > Len(listening_groups)
    THEN Returned(<<>>, found)
    ELSE LET call == ProfileCall("member", listening_groups[i], user_id, answers[i])
         IN  CASE answers[i].status = "ok" ->
                     Then(<<call>>, member_loop_no_return(user_id, answers, i + 1, TRUE))
               [] answers[i].status = "LineBotApiError" ->
                     Then(<<call>>, member_loop_no_return(user_id, answers, i + 1, found))
               [] OTHER -> Raised(<<call>>, answers[i].status)

user_in_listening_group_no_return(user_id, answers) ==
    member_loop_no_return(user_id, answers, 1, FALSE)

user_in_listening_group(user_id, answers) == member_loop(user_id, answers, 1)

StickerUrl(sticker_id) ==
    "https://stickershop.line-scdn.net/stickershop/v1/sticker/"
        \o sticker_id \o "/android/sticker.png"

get_sticker_embed(sticker_id) == <<[image |-> [url |-> StickerUrl(sticker_id)]]>>

\* get_ext of get_file; guessed is what mimetypes.guess_extension returned
get_ext(mimetype, guessed) ==
    LET ext == IF guessed = None
               THEN IF \E i \in DOMAIN mimetype : token_has_audio(mimetype[i])
                    THEN ".mp3"
                    ELSE ""
               ELSE guessed
    IN  IF ext = ".jpe" THEN ".jpg" ELSE ext

get_file(message_id, answer) ==
    LET call == ContentCall(message_id, answer)
    IN  IF answer.status = "ok"
        THEN Returned(<<call>>,
                      <<"attachment" \o get_ext(answer.content_type, answer.guessed),
                        "bytes">>)
        ELSE Raised(<<call>>, answer.status)

Repeat(c, n) == [i \in 1..n |-> c]

\* '{:<fill>^<width>}'.format(s): s centred in width, the odd fill character
\* going to the right; s itself when it is at least width long
format_center(s, fill, width) ==
    IF Len(s) >= width
    THEN s
    ELSE LET total == width - Len(s)
             left == total \div 2
         IN  Repeat(fill, left) \o s \o Repeat(fill, total - left)

UsernameWidth == 2

\* get_user_overrides returning the display name as it is
get_user_overrides_unpadded(user_id, answer) ==
    IF user_id = None
    THEN Returned(<<>>, NoOverrides)
    ELSE LET call == ProfileCall("overrides", capture_group_id, user_id, answer)
         IN  IF answer.status = "ok"
             THEN Returned(<<call>>,
                     [username |-> answer.profile.display_name,
                      avatar_url |-> answer.profile.picture_url])
             ELSE Raised(<<call>>, answer.status)

\* get_user_overrides catching the failure of the lookup
get_user_overrides_swallowing(user_id, answer) ==
    IF user_id = None
    THEN Returned(<<>>, NoOverrides)
    ELSE LET call == ProfileCall("overrides", capture_group_id, user_id, answer)
         IN  IF answer.status = "ok"
             THEN Returned(<<call>>,
                     [username |-> format_center(answer.profile.display_name,
                                                 Filler, UsernameWidth),
                      avatar_url |-> answer.profile.picture_url])
             ELSE Returned(<<call>>, NoOverrides)

get_user_overrides(user_id, answer) ==
    IF user_id = None
    THEN Returned(<<>>, NoOverrides)
    ELSE LET call == ProfileCall("overrides", capture_group_id, user_id, answer)
         IN  IF answer.status = "ok"
             THEN Returned(<<call>>,
                     [username |-> format_center(answer.profile.display_name,
                                                 Filler, UsernameWidth),
                      avatar_url |-> answer.profile.picture_url])
             ELSE Raised(<<call>>, answer.status)

-----------------------------------------------------------------------------
(* LineCarbot: the handlers.  Python evaluates every argument of a call    *)
(* before the call: get_file, then get_user_overrides, then send_message.  *)

\* the membership test left out
in_listening_groups_any(group_id) == TRUE

\* `group_id in LineCarbot.listening_groups`
in_listening_groups(group_id) == group_id \in Range(listening_groups)

\* hasattr(event.source, 'group_id')
has_group_id(e) == e.group # None

Dropped(calls) == Returned(calls, None)

\* handle_sticker_message forwarding a member's private sticker
handle_sticker_message_run_forwarding(e, member, profile, discord) ==
    IF e.group # None
    THEN IF e.group \in Range(listening_groups)
         THEN LET ov == get_user_overrides(e.user, profile)
              IN  IF ov.exc # "none"
                  THEN ov
                  ELSE Then(ov.calls,
                            send_message(repeat_hook_url,
                                         Payload(None, None,
                                                 get_sticker_embed(e.sticker_id),
                                                 ov.value),
                                         discord))
         ELSE Dropped(<<>>)
    ELSE LET m == user_in_listening_group(e.user, member)
         IN  IF m.exc # "none"
             THEN m
             ELSE IF m.value
                  THEN Then(m.calls,
                            send_message(broadcast_hook_url,
                                         Payload(None, None,
                                                 get_sticker_embed(e.sticker_id),
                                                 NoOverrides),
                                         discord))
                  ELSE Dropped(m.calls)

handle_text_message_run(e, member, profile, discord) ==
    IF has_group_id(e)
    THEN IF in_listening_groups(e.group)
         THEN LET ov == get_user_overrides(e.user, profile)
              IN  IF ov.exc # "none"
                  THEN ov
                  ELSE Then(ov.calls,
                            send_message(repeat_hook_url,
                                         Payload(e.text, None, None, ov.value),
                                         discord))
         ELSE Dropped(<<>>)
    ELSE LET m == user_in_listening_group(e.user, member)
         IN  IF m.exc # "none"
             THEN m
             ELSE IF m.value
                  THEN Then(m.calls,
                            send_message(broadcast_hook_url,
                                         Payload(e.text, None, None, NoOverrides),
                                         discord))
                  ELSE Dropped(m.calls)

handle_sticker_message_run(e, member, profile, discord) ==
    IF has_group_id(e)
    THEN IF in_listening_groups(e.group)
         THEN LET ov == get_user_overrides(e.user, profile)
              IN  IF ov.exc # "none"
                  THEN ov
                  ELSE Then(ov.calls,
                            send_message(repeat_hook_url,
                                         Payload(None, None,
                                                 get_sticker_embed(e.sticker_id),
                                                 ov.value),
                                         discord))
         ELSE Dropped(<<>>)
    ELSE LET m == user_in_listening_group(e.user, member)
         IN  IF m.exc # "none" THEN m ELSE Dropped(m.calls)

handle_file_message_run(e, member, content, profile, discord) ==
    IF has_group_id(e)
    THEN IF in_listening_groups(e.group)
         THEN LET f == get_file(e.id, content)
                  ov == get_user_overrides(e.user, profile)
              IN  IF f.exc # "none"
                  THEN f
                  ELSE IF ov.exc # "none"
                       THEN Then(f.calls, ov)
                       ELSE Then(f.calls \o ov.calls,
                                 send_message(repeat_hook_url,
                                              Payload(None, f.value, None, ov.value),
                                              discord))
         ELSE Dropped(<<>>)
    ELSE LET m == user_in_listening_group(e.user, member)
         IN  IF m.exc # "none"
             THEN m
             ELSE IF m.value
                  THEN LET f == get_file(e.id, content)
                       IN  IF f.exc # "none"
                           THEN Then(m.calls, f)
                           ELSE Then(m.calls \o f.calls,
                                     send_message(broadcast_hook_url,
                                                  Payload(None, f.value, None,
                                                          NoOverrides),
                                                  discord))
                  ELSE Dropped(m.calls)

default_run(e) == Dropped(<<>>)

-----------------------------------------------------------------------------
(* endpoint *)

Methods == {"GET", "POST"}
\* the X-Line-Signature header: matching the body, not matching, or absent
Signatures == {"valid", "invalid", "missing"}

\* The events of the body are not part of the record: the model reads them
\* one at a time, as WebhookHandler.handle reaches them, at most MaxEvents.
Requests == [method : Methods, signature : Signatures]
NoRequest == [method |-> "none", signature |-> "none"]

\* the except clauses of endpoint; any other exception leaves endpoint
endpoint_response(exc) ==
    CASE exc = "InvalidSignatureError" -> "403"
      [] exc = "LineBotApiError" -> "400"
      [] OTHER -> "raised"

MemberAnswers ==
    [1..Len(listening_groups) -> {[status |-> s] : s \in {"ok"} \cup Failures}]

NoRet == [exc |-> "not applied"]
NoArg == [fn |-> "none"]

Init ==
    /\ listening_groups = <<capture_group_id>>
    /\ pc = "idle"
    /\ request = NoRequest
    /\ idx = 0
    /\ event = NoEvent
    /\ trace = <<>>
    /\ raised = "none"
    /\ response = "none"
    /\ arg = NoArg
    /\ ret = NoRet

Respond(exc, resp) ==
    /\ raised' = exc
    /\ response' = resp
    /\ pc' = "responded"

\* endpoint up to the loop over the events: the method, the header, and the
\* signature check that WebhookHandler.handle makes before any handler
endpoint ==
    /\ pc \in {"idle", "responded"}
    /\ \E r \in Requests :
        /\ request' = r
        /\ IF r.method # "POST"
           THEN Respond("none", "405")
           ELSE IF r.signature = "missing"
           THEN Respond("KeyError", endpoint_response("KeyError"))
           ELSE IF r.signature = "invalid"
           THEN Respond("InvalidSignatureError",
                        endpoint_response("InvalidSignatureError"))
           ELSE /\ pc' = "dispatch"
                /\ raised' = "none"
                /\ response' = "none"
    /\ idx' = 0
    /\ event' = NoEvent
    /\ trace' = <<>>
    /\ UNCHANGED <<listening_groups, arg, ret>>

\* a handler ran for event e with result r
Handled(e, r) ==
    /\ event' = e
    /\ trace' = r.calls
    /\ IF r.exc # "none"
       THEN Respond(r.exc, endpoint_response(r.exc))
       ELSE /\ pc' = "dispatch"
            /\ UNCHANGED <<raised, response>>
    /\ UNCHANGED <<listening_groups, request, idx, arg, ret>>

\* An answer is drawn only for a call the handler can make for the event:
\* the membership lookups for a source without group_id, the sender's
\* profile for a source with one.
NotAsked == [status |-> "not asked"]
MemberAnswersFor(e) == IF has_group_id(e) THEN {<<NotAsked>>} ELSE MemberAnswers
ProfileResponsesFor(e) == IF has_group_id(e) THEN ProfileResponses ELSE {NotAsked}

handle_text_message ==
    /\ pc = "handling"
    /\ \E e \in Events :
        /\ e.kind = "Text"
        /\ \E member \in MemberAnswersFor(e), profile \in ProfileResponsesFor(e),
              discord \in DiscordAnswers :
            Handled(e, handle_text_message_run(e, member, profile, discord))

handle_sticker_message ==
    /\ pc = "handling"
    /\ \E e \in Events :
        /\ e.kind = "Sticker"
        /\ \E member \in MemberAnswersFor(e), profile \in ProfileResponsesFor(e),
              discord \in DiscordAnswers :
            Handled(e, handle_sticker_message_run(e, member, profile, discord))

handle_file_message ==
    /\ pc = "handling"
    /\ \E e \in Events :
        /\ e.kind \in FileKinds
        /\ \E member \in MemberAnswersFor(e), content \in ContentResponses,
              profile \in ProfileResponsesFor(e), discord \in DiscordAnswers :
            Handled(e, handle_file_message_run(e, member, content, profile, discord))

default ==
    /\ pc = "handling"
    /\ \E e \in Events :
        /\ e.kind = "Other"
        /\ Handled(e, default_run(e))

\* The loop of WebhookHandler.handle: the body holds another event, which
\* goes to its handler, or it holds no more and endpoint returns
\* HttpResponse().
next_event ==
    /\ pc = "dispatch"
    /\ \/ /\ idx < MaxEvents
          /\ idx' = idx + 1
          /\ pc' = "handling"
          /\ event' = NoEvent
          /\ trace' = <<>>
          /\ UNCHANGED <<raised, response>>
       \/ /\ Respond("none", "200")
          /\ UNCHANGED <<idx, event, trace>>
    /\ UNCHANGED <<listening_groups, request, arg, ret>>

Next ==
    \/ endpoint
    \/ handle_text_message
    \/ handle_sticker_message
    \/ handle_file_message
    \/ default
    \/ next_event

Spec == Init /\ [][Next]_vars

-----------------------------------------------------------------------------
(* user_in_listening_group applied on its own, for any listening_groups of *)
(* one to MaxGroups groups                                                 *)

ConfigGroups == {"G1", "G2", "G3"}

InitMembership ==
    /\ listening_groups \in SeqsUpTo(ConfigGroups, MaxGroups) \ {<<>>}
    /\ pc = "idle"
    /\ request = NoRequest
    /\ idx = 0
    /\ event = NoEvent
    /\ trace = <<>>
    /\ raised = "none"
    /\ response = "none"
    /\ arg \in [fn : {"user_in_listening_group"}, user_id : Users \cup {None},
                answers : MemberAnswers]
    /\ ret = NoRet

apply_user_in_listening_group ==
    /\ arg.fn = "user_in_listening_group"
    /\ ret = NoRet
    /\ ret' = user_in_listening_group(arg.user_id, arg.answers)
    /\ UNCHANGED <<listening_groups, pc, request, idx, event, trace, raised,
                   response, arg>>

SpecMembership == InitMembership /\ [][apply_user_in_listening_group]_vars

-----------------------------------------------------------------------------
(* Reading the trace of the event at hand *)

Calls(op) == {i \in DOMAIN trace : trace[i].op = op}
Posts == Calls("post")
PrimaryPosts == {i \in Posts : trace[i].role = "primary"}
FallbackPosts == {i \in Posts : trace[i].role = "fallback"}
MemberLookups == {i \in Calls("get_group_member_profile") : trace[i].why = "member"}
OverrideLookups == {i \in Calls("get_group_member_profile") : trace[i].why = "overrides"}
ContentFetches == Calls("get_message_content")
\* the lookups made for the payload
PayloadLookups == OverrideLookups \cup ContentFetches

\* a handler has run for event
HandlerRan == event # NoEvent
GroupSourced == event.group # None
Listened == \E k \in DOMAIN listening_groups : listening_groups[k] = event.group

\* what user_in_listening_group returned, read off the lookups it made
MemberTrue == \E i \in MemberLookups : trace[i].resp.status = "ok"
MemberFalse ==
    /\ Cardinality(MemberLookups) = Len(listening_groups)
    /\ \A i \in MemberLookups : trace[i].resp.status = "LineBotApiError"

LookupsReturned == \A i \in PayloadLookups : trace[i].resp.status = "ok"

\* post i carries the translation of event
Translated(i) ==
    LET p == trace[i].payload
    IN  CASE event.kind = "Text" ->
                p.content = event.text /\ p.file = None /\ p.embeds = None
          [] event.kind = "Sticker" ->
                /\ p.content = None /\ p.file = None
                /\ p.embeds = <<[image |-> [url |->
                      "https://stickershop.line-scdn.net/stickershop/v1/sticker/"
                          \o event.sticker_id \o "/android/sticker.png"]]>>
          [] OTHER -> p.content = None /\ p.file # None /\ p.embeds = None

DroppedByRouting ==
    \/ GroupSourced /\ ~Listened
    \/ ~GroupSourced /\ MemberFalse

-----------------------------------------------------------------------------
(* Claims *)

\* C1, as stated: for a handled group-sourced message event, the translated
\* payload is submitted to the repeat URL if the group is in the listening
\* set, and nothing is submitted anywhere if it is not.
C1_AsStated ==
    (HandlerRan /\ GroupSourced /\ event.kind \in MessageKinds) =>
        IF Listened
        THEN \E i \in PrimaryPosts : trace[i].url = repeat_hook_url /\ Translated(i)
        ELSE Posts = {}

\* C1, amended: for a handled group-sourced message event, the translated
\* payload is submitted to the repeat URL, once, if the group is in the
\* listening set and every lookup made for the payload returned; nothing is
\* submitted anywhere if a lookup raised or the group is not in the set.
C1_GroupRouting ==
    (HandlerRan /\ GroupSourced /\ event.kind \in MessageKinds) =>
        IF Listened /\ LookupsReturned
        THEN /\ Cardinality(PrimaryPosts) = 1
             /\ \A i \in PrimaryPosts : trace[i].url = repeat_hook_url /\ Translated(i)
        ELSE Posts = {}

C1_Witness ==
    /\ HandlerRan /\ GroupSourced /\ Listened
    /\ event.kind \in FileKinds
    /\ \E i \in PrimaryPosts : trace[i].url = repeat_hook_url /\ trace[i].outcome = "2xx"

\* C2, as stated: for a direct Text, Image, Video, Audio or File event, the
\* payload is submitted to the broadcast URL without username or avatar_url
\* when user_in_listening_group returned true, and nothing is submitted
\* anywhere when it returned false.
C2_AsStated ==
    (HandlerRan /\ ~GroupSourced /\ event.kind \in {"Text"} \cup FileKinds) =>
        /\ MemberTrue =>
              /\ \E i \in PrimaryPosts : Translated(i)
              /\ \A i \in Posts :
                    /\ trace[i].url = broadcast_hook_url
                    /\ trace[i].payload.username = None
                    /\ trace[i].payload.avatar_url = None
        /\ MemberFalse => Posts = {}

\* C2, amended: for a direct Text, Image, Video, Audio or File event, the
\* payload is submitted to the broadcast URL, once and without username or
\* avatar_url, when user_in_listening_group returned true and the attachment
\* fetch (made for Image, Video, Audio, File) returned; nothing is submitted
\* anywhere when the fetch raised or user_in_listening_group returned false.
C2_DirectRouting ==
    (HandlerRan /\ ~GroupSourced /\ event.kind \in {"Text"} \cup FileKinds) =>
        /\ (MemberTrue /\ LookupsReturned) =>
              /\ Cardinality(PrimaryPosts) = 1
              /\ \A i \in PrimaryPosts : Translated(i)
              /\ \A i \in Posts :
                    /\ trace[i].url = broadcast_hook_url
                    /\ trace[i].payload.username = None
                    /\ trace[i].payload.avatar_url = None
        /\ (MemberTrue /\ ~LookupsReturned) => Posts = {}
        /\ MemberFalse => Posts = {}
        /\ OverrideLookups = {}

C2_Witness ==
    /\ HandlerRan /\ ~GroupSourced /\ MemberTrue
    /\ event.kind \in FileKinds
    /\ \E i \in PrimaryPosts :
          trace[i].url = broadcast_hook_url /\ trace[i].payload.file # None

\* C3: a Sticker event from a source without group id causes no submission,
\* whether or not the sender is a member of a listening group.
C3_DirectStickerDropped ==
    (HandlerRan /\ event.kind = "Sticker" /\ ~GroupSourced) => Posts = {}

C3_Witness ==
    /\ HandlerRan /\ event.kind = "Sticker" /\ ~GroupSourced
    /\ MemberTrue
    /\ pc = "dispatch"

\* C4, as stated: when the primary submission of send_message fails (no
\* response, or a response that is not 2xx), exactly one fallback carrying
\* the notice goes to the same URL, and no exception leaves send_message,
\* also when the fallback fails.
C4_AsStated ==
    (HandlerRan /\ Posts # {}) =>
        /\ raised = "none"
        /\ \A i \in PrimaryPosts :
              IF trace[i].outcome = "2xx"
              THEN FallbackPosts = {}
              ELSE /\ Cardinality(FallbackPosts) = 1
                   /\ \A j \in FallbackPosts :
                         /\ j > i
                         /\ trace[j].url = trace[i].url
                         /\ trace[j].payload.content = Notice

\* C5, as stated: a request that is not a POST gets 405; a POST whose
\* signature does not verify gets 403 and no handler runs; a POST during
\* whose handling LineBotApiError is raised gets 400; every other POST gets
\* 200.
C5_AsStated ==
    pc = "responded" =>
        CASE request.method # "POST" -> response = "405"
          [] request.method = "POST" /\ request.signature # "valid" ->
                response = "403" /\ ~HandlerRan /\ trace = <<>>
          [] request.method = "POST" /\ request.signature = "valid"
                /\ raised = "LineBotApiError" -> response = "400"
          [] OTHER -> response = "200"

\* C7: an event causes at most one primary submission and, with the
\* fallback notice, at most two submissions, all to one URL; an event that
\* is dropped (group not listened to, direct message of a non-member,
\* direct sticker, unhandled kind) causes none.
C7_OnePayloadOneDestination ==
    HandlerRan =>
        /\ Cardinality(PrimaryPosts) <= 1
        /\ Cardinality(FallbackPosts) <= 1
        /\ \A i \in FallbackPosts : \E j \in PrimaryPosts : j < i
        /\ \A i, j \in Posts : trace[i].url = trace[j].url
        /\ ( \/ DroppedByRouting
             \/ ~GroupSourced /\ event.kind = "Sticker"
             \/ event.kind = "Other" ) => Posts = {}

C7_Witness ==
    /\ HandlerRan
    /\ Cardinality(PrimaryPosts) = 1
    /\ Cardinality(FallbackPosts) = 1
    /\ \A i \in Posts : trace[i].url = repeat_hook_url

\* the extension the rule of the specification gives
RuleExt(mimetype, guessed) ==
    IF guessed # None
    THEN IF guessed = ".jpe" THEN ".jpg" ELSE guessed
    ELSE IF mimetype[1] = "audio/" THEN ".mp3" ELSE ""

\* C8, as stated: the file name submitted is "attachment" followed by the
\* extension of the rule: the mapping's extension when there is one, with
\* .jpe turned into .jpg; else .mp3 exactly when the content-type begins
\* with audio/, and no extension otherwise.
C8_AsStated ==
    HandlerRan =>
        \A i \in PrimaryPosts : \A j \in ContentFetches :
            trace[i].payload.file[1] =
                "attachment" \o RuleExt(trace[j].resp.content_type,
                                        trace[j].resp.guessed)

\* u is s with fill characters added at its ends
PaddedFrom(s, u) ==
    \E l \in 0..(Len(u) - Len(s)) :
        u = Repeat(Filler, l) \o s \o Repeat(Filler, Len(u) - Len(s) - l)

\* C9: for a present user id the username override is the display name
\* filled up to exactly 2 characters with the fill character when it has 0
\* or 1 characters, and the display name itself when it has 2 or more; for
\* an absent user id there is no override and no profile lookup.
C9_UsernamePadding ==
    (HandlerRan /\ GroupSourced) =>
        /\ event.user = None => OverrideLookups = {}
        /\ \A i \in PrimaryPosts :
              LET p == trace[i].payload
              IN  IF event.user = None
                  THEN p.username = None /\ p.avatar_url = None
                  ELSE \E j \in OverrideLookups :
                          /\ j < i
                          /\ trace[j].resp.status = "ok"
                          /\ p.avatar_url = trace[j].resp.profile.picture_url
                          /\ LET name == trace[j].resp.profile.display_name
                             IN  IF Len(name) >= 2
                                 THEN p.username = name
                                 ELSE /\ Len(p.username) = 2
                                      /\ PaddedFrom(name, p.username)

C9_Witness ==
    /\ HandlerRan /\ GroupSourced /\ event.user # None
    /\ \E i \in PrimaryPosts : \E j \in OverrideLookups :
          /\ Len(trace[j].resp.profile.display_name) = 1
          /\ trace[i].payload.username = trace[j].resp.profile.display_name \o <<Filler>>

\* C10: every lookup made for the payload comes before the first
\* submission; when such a lookup raises LineBotApiError the event causes
\* no submission, endpoint answers 400 and handles nothing further; no
\* lookup is made twice; and an event dropped by routing causes no
\* attachment fetch.
C10_LookupsBeforeSubmission ==
    HandlerRan =>
        /\ \A i \in PayloadLookups : \A j \in Posts : i < j
        /\ (\E i \in PayloadLookups : trace[i].resp.status = "LineBotApiError") =>
              /\ Posts = {}
              /\ pc = "responded"
              /\ raised = "LineBotApiError"
              /\ response = "400"
        /\ Cardinality(ContentFetches) <= 1
        /\ Cardinality(OverrideLookups) <= 1
        /\ DroppedByRouting => ContentFetches = {}

C10_Witness ==
    /\ HandlerRan /\ GroupSourced /\ Listened
    /\ event.kind \in FileKinds
    /\ \E i \in ContentFetches : trace[i].resp.status = "ok"
    /\ \E i \in OverrideLookups : trace[i].resp.status = "LineBotApiError"
    /\ Posts = {}
    /\ response = "400"

-----------------------------------------------------------------------------
(* Claims about user_in_listening_group, under SpecMembership *)

Applied == ret # NoRet

\* the lookups made are those of the first n groups, in the order of
\* listening_groups, for the user asked about
AskedFirst(n) ==
    /\ Len(ret.calls) = n
    /\ \A k \in 1..n :
          /\ ret.calls[k].group = listening_groups[k]
          /\ ret.calls[k].user = arg.user_id

Min(S) == CHOOSE k \in S : \A m \in S : k <= m

=============================================================================
